---- MODULE Spec2Model ----
(***************************************************************************)
(* Model of johnny/cache.py: the generation-key scheme of the query cache. *)
(*                                                                         *)
(*   KeyGen       random_generator, gen_table_key, gen_multi_key           *)
(*   KeyHandler   get_generation, get_single_generation,                   *)
(*                get_multi_generation, invalidate_table                   *)
(*   QueryCacheBackend  the read path (_monkey_select) and the write path  *)
(*                (_monkey_write) wrapped around the compiler's execute_sql*)
(*                                                                         *)
(* Callers run the methods concurrently over one cache backend.  Every     *)
(* call of cache_backend.get / cache_backend.set and every call of the     *)
(* wrapped execute_sql is one atomic step; the statements between two such *)
(* calls (key derivation, random_generator, the call and the return) touch *)
(* nothing shared and ride with the step next to them.                     *)
(*                                                                         *)
(* Strings are sequences of symbols.  A symbol is a character <<"c", ch>>, *)
(* the 32 hexadecimal characters of one MD5 digest <<"md5", data>>, or the *)
(* text of one uuid4 <<"uuid", n>>.  MD5 is taken collision free: a digest *)
(* is determined by, and determines, the data that was hashed.             *)
(***************************************************************************)
EXTENDS Integers, Sequences, FiniteSets, TLC

VARIABLES
    store,   \* the cache backend: key -> value, for the keys that were set
    uuids,   \* how many times uuid4() was called
    db,      \* the database: table -> version of its rows
    pc,      \* caller -> the statement it is at
    fr,      \* caller -> the locals of the call it is in
    log      \* the calls that returned or raised, in that order (history)

vars == <<store, uuids, db, pc, fr, log>>

\* ----------------------------------------------------------------- bounds

NumCallers == 2
MaxCalls == 3

Callers == 1..NumCallers

\* ---------------------------------------------------------------- strings

Chars(s) == [i \in DOMAIN s |-> <<"c", s[i]>>]

\* len(s): the number of characters of s: a digest is 32 hexadecimal characters,
\* the text of a uuid4 is 36 characters
len(s) ==
    Len(s) + 31 * Cardinality({i \in DOMAIN s : s[i][1] = "md5"})
           + 35 * Cardinality({i \in DOMAIN s : s[i][1] = "uuid"})

\* len(table) > 200, table[200:], table[0:200]
TableNameMax == 200

Pad == [i \in 1..TableNameMax |-> "a"]

Users == Chars(<<"u">>)
Orders == Chars(<<"o">>)
LongX == Chars(Pad \o <<"x">>)
LongY == Chars(Pad \o <<"y">>)

\* the table names of a sequential run: two short ones, and two long ones that
\* differ only after their 200th character
Tables == {Users, Orders, LongX, LongY}

\* the lists of tables of a sequential run
TableLists == {<<Users>>, <<Users, Orders>>, <<Orders, Users>>, <<LongX, LongY>>}

\* the table names and the lists of tables that concurrent callers use
SharedTables == {Users}
SharedLists == {<<Users, Orders>>}

\* the tables of the database, and cls.query.tables of the statements that
\* callers execute on it
PathTables == {Users, Orders}
PathLists == {<<Users>>, <<Users, Orders>>}

Multi(lists) == {T \in lists : Len(T) > 1}

None == << <<"None">> >>
TypeError == << <<"TypeError">> >>

\* what a call of the cache backend raises when it fails
StoreErrors == {<< <<"timeout">> >>, << <<"unreachable">> >>}

\* ------------------------------------------------------------------ KeyGen

\* m = md5(); m.update(data); m.hexdigest()
md5_new == <<>>
md5_update(m, data) == m \o data
hexdigest(m) == << <<"md5", m>> >>

uuid4(n) == << <<"uuid", n>> >>

\* the n-th call of random_generator: the digest of a uuid4 that no other call drew
random_generator(n) == hexdigest(md5_update(md5_new, uuid4(n)))

jc_table == Chars(<<"j", "c", "_", "t", "a", "b", "l", "e", "_">>)
jc_multi == Chars(<<"j", "c", "_", "m", "u", "l", "t", "i", "_">>)

\* gen_table_key without the digest of what it cuts off
gen_table_key_truncated(table) ==
    IF len(table) > TableNameMax
    THEN jc_table \o SubSeq(table, 1, TableNameMax)
    ELSE jc_table \o table

\* gen_table_key keeping the whole name in front of the digest
gen_table_key_untruncated(table) ==
    IF len(table) > TableNameMax
    THEN jc_table \o (table
             \o hexdigest(md5_update(md5_new, SubSeq(table, TableNameMax + 1, Len(table)))))
    ELSE jc_table \o table

\* a table name is a string of characters, a long one at least in its first 200
gen_table_key(table) ==
    IF len(table) > TableNameMax
    THEN jc_table \o (SubSeq(table, 1, TableNameMax)
             \o hexdigest(md5_update(md5_new, SubSeq(table, TableNameMax + 1, Len(table)))))
    ELSE jc_table \o table

RECURSIVE update_all(_, _)
\* for v in values: key.update(str(v))
update_all(m, values) ==
    IF values = <<>> THEN m
    ELSE update_all(md5_update(m, <<Head(values)>>), Tail(values))

\* gen_multi_key hashing the first generation only
gen_multi_key_first(values) == jc_multi \o hexdigest(update_all(md5_new, SubSeq(values, 1, 1)))

\* gen_multi_key under the prefix of gen_table_key
gen_multi_key_as_table(values) == jc_table \o hexdigest(update_all(md5_new, values))

gen_multi_key(values) == jc_multi \o hexdigest(update_all(md5_new, values))

\* the arguments of gen_multi_key: lists of generations (line 67 makes them lists
\* of the characters of the generations, which the loop of line 36 hashes one by one)
ValueLists ==
    {random_generator(1),
     random_generator(1) \o random_generator(2),
     random_generator(2) \o random_generator(1)}

\* a table named like the digest of a list of generations
DigestName == hexdigest(update_all(md5_new, random_generator(1) \o random_generator(2)))

\* the arguments of gen_table_key: names of 1, 200, 201 and 250 characters, and
\* the name of 32 characters
KeyTables ==
    {Users, Chars(Pad), LongX, LongY, Chars(Pad \o [i \in 1..50 |-> "b"]), DigestName}

\* ----------------------------------------------------------- cache backend

\* cache_backend.get(key, None)
Get(st, key) == IF key \in DOMAIN st THEN st[key] ELSE None

\* cache_backend.set(key, val)
Set(st, key, val) == [k \in DOMAIN st \cup {key} |-> IF k = key THEN val ELSE st[k]]

\* ------------------------------------------------------------------ callers

IdleFrame ==
    [op |-> "none", tables |-> <<>>, query |-> None, i |-> 0, gens |-> <<>>,
     key |-> None, val |-> None, start |-> 0, drawn |-> {}, calls |-> <<>>,
     error |-> None]

\* the locals of a call: the method called, its tables argument (and, of a read,
\* the query it executes), the index of the table a loop is at, the generations
\* list, key and val; and, as history, start: the number of calls that had ended
\* when this one began, drawn: the values that random_generator returned to this
\* call, calls: the methods of the cache backend it called, in order (key being
\* the key of the latest), and error: what a call of the cache backend raised
Frame(op, tables) ==
    [op |-> op, tables |-> tables, query |-> None, i |-> 1, gens |-> <<>>,
     key |-> None, val |-> None, start |-> Len(log), drawn |-> {}, calls |-> <<>>,
     error |-> None]

\* the call calls cache_backend.get(key, None) or cache_backend.set(key, ...)
Called(f, method, key) == [f EXCEPT !.calls = Append(@, method), !.key = key]

Started == Len(log) + Cardinality({c \in Callers : pc[c] # "idle"})

\* caller c has called before
HasCalled(c) == pc[c] # "idle" \/ \E i \in DOMAIN log : log[i].caller = c

\* a caller may begin a call; callers are interchangeable, and are numbered in the
\* order of their first calls
CanCall(c) ==
    /\ pc[c] = "idle"
    /\ Started < MaxCalls
    /\ \A d \in Callers : d < c => HasCalled(d)

\* what a call leaves in the history when it ends
Entry(c, f, val, hit) ==
    [caller |-> c, op |-> f.op, tables |-> f.tables, query |-> f.query, gens |-> f.gens,
     key |-> f.key,
     ret |-> val, start |-> f.start, drawn |-> f.drawn, hit |-> hit, calls |-> f.calls,
     error |-> f.error]

Go(c, label, f) ==
    /\ pc' = [pc EXCEPT ![c] = label]
    /\ fr' = [fr EXCEPT ![c] = f]
    /\ log' = log

\* the caller's outermost call returns val (or raises it)
Return(c, f, val, hit) ==
    /\ pc' = [pc EXCEPT ![c] = "idle"]
    /\ fr' = [fr EXCEPT ![c] = IdleFrame]
    /\ log' = Append(log, Entry(c, f, val, hit))

\* a call of the cache backend raises e: no method of KeyHandler has a try, an
\* except or a finally, so e ends the method, and its caller, where they are
Raise(c, f, e) == Return(c, [f EXCEPT !.error = e], e, FALSE)

\* get_generation as its docstring and its callers have it: "Get the generation
\* key for any number of tables", get_multi_generation for more than one table and
\* get_single_generation for one.  (As written it raises: get_generation below.)
documented_dispatch(tables) ==
    IF Len(tables) > 1 THEN "get_multi_generation" ELSE "get_single_generation"

\* get_single_generation runs inside the loop of get_multi_generation
InLoop(f) ==
    \/ f.op = "get_multi_generation"
    \/ f.op = "select" /\ documented_dispatch(f.tables) = "get_multi_generation"

\* a KeyHandler method returns val to whoever called it
KhReturn(c, f, val) ==
    CASE f.op = "select" ->
            \* key = self.keyhandler.get_generation(*cls.query.tables)
            Go(c, "sel_get", [f EXCEPT !.key = val])
      [] f.op = "write" ->
            \* for table in tables: self.keyhandler.invalidate_table(table)
            IF f.i < Len(f.tables)
            THEN Go(c, "inv", [f EXCEPT !.i = f.i + 1])
            ELSE Go(c, "wr_orig", f)
      [] OTHER -> Return(c, f, val, FALSE)

\* get_single_generation returns val
GsgReturn(c, f, val) ==
    IF InLoop(f)
    THEN \* generations += self.get_single_generation(table)
         LET g == [f EXCEPT !.gens = f.gens \o val, !.i = f.i + 1]
         IN  IF f.i < Len(f.tables) THEN Go(c, "gsg_get", g) ELSE Go(c, "gmg_get", g)
    ELSE KhReturn(c, f, val)

\* --------------------------------------------------------------- KeyHandler

\* get_single_generation making a new value whether the key is there or not
get_single_generation_refreshing(c, f) ==
    /\ LET key == gen_table_key(f.tables[f.i])
           val == Get(store, key)
       IN  Go(c, "gsg_set", Called([f EXCEPT !.key = key, !.val = val], "get", key))
    /\ UNCHANGED <<store, uuids, db>>

\* get_single_generation, lines 55-57 (and 60 when the key is there):
\* key = gen_table_key(table); val = get(key); if val == None
get_single_generation(c, f) ==
    /\ LET key == gen_table_key(f.tables[f.i])
           val == Get(store, key)
           g   == Called([f EXCEPT !.key = key, !.val = val], "get", key)
       IN  IF val = None THEN Go(c, "gsg_set", g) ELSE GsgReturn(c, g, val)
    /\ UNCHANGED <<store, uuids, db>>

\* gsg_set returning a value it does not store
gsg_set_unsaved(c) ==
    /\ pc[c] = "gsg_set"
    /\ LET val == random_generator(uuids + 1)
       IN  /\ uuids' = uuids + 1
           /\ store' = store
           /\ GsgReturn(c, [fr[c] EXCEPT !.val = val, !.drawn = @ \cup {val}], val)
    /\ UNCHANGED db

\* gsg_set storing its value only when the key is still absent (add, not set)
gsg_set_add(c) ==
    /\ pc[c] = "gsg_set"
    /\ LET val == random_generator(uuids + 1)
       IN  /\ uuids' = uuids + 1
           /\ store' = IF fr[c].key \in DOMAIN store THEN store ELSE Set(store, fr[c].key, val)
           /\ GsgReturn(c, Called([fr[c] EXCEPT !.val = val, !.drawn = @ \cup {val}],
                                  "add", fr[c].key), val)
    /\ UNCHANGED db

\* get_single_generation, lines 58-60: val = random_generator(); set(key, val); return val
gsg_set(c) ==
    /\ pc[c] = "gsg_set"
    /\ LET val == random_generator(uuids + 1)
       IN  /\ uuids' = uuids + 1
           /\ store' = Set(store, fr[c].key, val)
           /\ GsgReturn(c, Called([fr[c] EXCEPT !.val = val, !.drawn = @ \cup {val}],
                                  "set", fr[c].key), val)
    /\ UNCHANGED db

\* get_multi_generation, line 66: the next table of the loop
gsg_get(c) ==
    /\ pc[c] = "gsg_get"
    /\ get_single_generation(c, fr[c])

\* get_multi_generation, lines 68-70 (and 73 when the key is there):
\* key = gen_multi_key(generations); val = get(key); if val == None
gmg_get(c) ==
    /\ pc[c] = "gmg_get"
    /\ LET f   == fr[c]
           key == gen_multi_key(f.gens)
           val == Get(store, key)
           g   == Called([f EXCEPT !.key = key, !.val = val], "get", key)
       IN  IF val = None THEN Go(c, "gmg_set", g) ELSE KhReturn(c, g, val)
    /\ UNCHANGED <<store, uuids, db>>

\* gmg_set returning a value it does not store
gmg_set_unsaved(c) ==
    /\ pc[c] = "gmg_set"
    /\ LET val == random_generator(uuids + 1)
       IN  /\ uuids' = uuids + 1
           /\ store' = store
           /\ KhReturn(c, [fr[c] EXCEPT !.val = val, !.drawn = @ \cup {val}], val)
    /\ UNCHANGED db

\* gmg_set taking the last generation of its list for the aggregate value
gmg_set_reusing(c) ==
    /\ pc[c] = "gmg_set"
    /\ LET val == <<fr[c].gens[Len(fr[c].gens)]>>
       IN  /\ uuids' = uuids
           /\ store' = Set(store, fr[c].key, val)
           /\ KhReturn(c, Called([fr[c] EXCEPT !.val = val], "set", fr[c].key), val)
    /\ UNCHANGED db

\* get_multi_generation, lines 71-73: val = random_generator(); set(key, val); return val
gmg_set(c) ==
    /\ pc[c] = "gmg_set"
    /\ LET val == random_generator(uuids + 1)
       IN  /\ uuids' = uuids + 1
           /\ store' = Set(store, fr[c].key, val)
           /\ KhReturn(c, Called([fr[c] EXCEPT !.val = val, !.drawn = @ \cup {val}],
                                 "set", fr[c].key), val)
    /\ UNCHANGED db

\* invalidate_table returning a value it does not store
invalidate_table_unsaved(c, f) ==
    /\ LET key == gen_table_key(f.tables[f.i])
           val == random_generator(uuids + 1)
       IN  /\ uuids' = uuids + 1
           /\ store' = store
           /\ KhReturn(c, [f EXCEPT !.key = key, !.val = val, !.drawn = @ \cup {val}], val)
    /\ UNCHANGED db

\* invalidate_table storing its value only when the key is absent (add, not set)
invalidate_table_add(c, f) ==
    /\ LET key == gen_table_key(f.tables[f.i])
           val == random_generator(uuids + 1)
       IN  /\ uuids' = uuids + 1
           /\ store' = IF key \in DOMAIN store THEN store ELSE Set(store, key, val)
           /\ KhReturn(c, Called([f EXCEPT !.key = key, !.val = val, !.drawn = @ \cup {val}],
                                 "add", key), val)
    /\ UNCHANGED db

\* invalidate_table deleting the entry, for the next get_single_generation to create
invalidate_table_delete(c, f) ==
    /\ LET key == gen_table_key(f.tables[f.i])
           val == random_generator(uuids + 1)
       IN  /\ uuids' = uuids + 1
           /\ store' = [k \in DOMAIN store \ {key} |-> store[k]]
           /\ KhReturn(c, Called([f EXCEPT !.key = key, !.val = val, !.drawn = @ \cup {val}],
                                 "delete", key), val)
    /\ UNCHANGED db

\* invalidate_table, lines 79-82:
\* key = gen_table_key(table); val = random_generator(); set(key, val); return val
invalidate_table(c, f) ==
    /\ LET key == gen_table_key(f.tables[f.i])
           val == random_generator(uuids + 1)
       IN  /\ uuids' = uuids + 1
           /\ store' = Set(store, key, val)
           /\ KhReturn(c, Called([f EXCEPT !.key = key, !.val = val, !.drawn = @ \cup {val}],
                                 "set", key), val)
    /\ UNCHANGED db

\* get_generation, lines 49-51: both branches pass self a second time, to a bound
\* method, so the call of get_multi_generation / get_single_generation raises
\* TypeError before either method runs
get_generation(c, f) ==
    /\ Return(c, f, TypeError, FALSE)
    /\ UNCHANGED <<store, uuids, db>>

KhStep(c) == gsg_set(c) \/ gsg_get(c) \/ gmg_get(c) \/ gmg_set(c)

\* --------------------------------------------- KeyHandler, the store failing

\* get_single_generation taking a failed get for a miss (except: val = None)
get_single_generation_fails_caught(c, f, e) ==
    /\ LET key == gen_table_key(f.tables[f.i])
       IN  Go(c, "gsg_set", Called([f EXCEPT !.key = key, !.val = None, !.error = e], "get", key))
    /\ UNCHANGED <<store, uuids, db>>

\* get_single_generation, line 56: cache_backend.get raises e
get_single_generation_fails(c, f, e) ==
    /\ LET key == gen_table_key(f.tables[f.i])
       IN  Raise(c, Called([f EXCEPT !.key = key], "get", key), e)
    /\ UNCHANGED <<store, uuids, db>>

\* get_multi_generation, line 67, at a later table of the loop
gsg_get_fails(c, e) ==
    /\ pc[c] = "gsg_get"
    /\ get_single_generation_fails(c, fr[c], e)

\* get_single_generation, lines 58-59: cache_backend.set raises e
gsg_set_fails(c, e) ==
    /\ pc[c] = "gsg_set"
    /\ LET val == random_generator(uuids + 1)
       IN  /\ uuids' = uuids + 1
           /\ Raise(c, Called([fr[c] EXCEPT !.val = val, !.drawn = @ \cup {val}],
                              "set", fr[c].key), e)
    /\ UNCHANGED <<store, db>>

\* get_multi_generation, lines 68-69: cache_backend.get raises e
gmg_get_fails(c, e) ==
    /\ pc[c] = "gmg_get"
    /\ LET key == gen_multi_key(fr[c].gens)
       IN  Raise(c, Called([fr[c] EXCEPT !.key = key], "get", key), e)
    /\ UNCHANGED <<store, uuids, db>>

\* get_multi_generation, lines 71-72: cache_backend.set raises e
gmg_set_fails(c, e) ==
    /\ pc[c] = "gmg_set"
    /\ LET val == random_generator(uuids + 1)
       IN  /\ uuids' = uuids + 1
           /\ Raise(c, Called([fr[c] EXCEPT !.val = val, !.drawn = @ \cup {val}],
                              "set", fr[c].key), e)
    /\ UNCHANGED <<store, db>>

\* invalidate_table, lines 79-81: cache_backend.set raises e
invalidate_table_fails(c, f, e) ==
    /\ LET key == gen_table_key(f.tables[f.i])
           val == random_generator(uuids + 1)
       IN  /\ uuids' = uuids + 1
           /\ Raise(c, Called([f EXCEPT !.key = key, !.val = val, !.drawn = @ \cup {val}],
                              "set", key), e)
    /\ UNCHANGED <<store, db>>

KhStepFails(c, e) ==
    gsg_get_fails(c, e) \/ gsg_set_fails(c, e) \/ gmg_get_fails(c, e) \/ gmg_set_fails(c, e)

\* -------------------------------------------------------- QueryCacheBackend

Range(seq) == {seq[n] : n \in DOMAIN seq}

\* the statements that reading compilers execute: cls, args and kwargs of newfun
Queries == {<< <<"sql", 1>> >>, << <<"sql", 2>> >>}

\* what original(cls, ...) of a reading compiler returns: what its query selects
\* from the rows of its tables
Rows(tables, query) == << <<"rows", [t \in Range(tables) |-> db[t]], query>> >>

\* what original(cls, ...) of a writing compiler leaves in the database
Written(tables) == [t \in DOMAIN db |-> IF t \in Range(tables) THEN db[t] + 1 ELSE db[t]]

\* _monkey_select, line 107: key = self.keyhandler.get_generation(*cls.query.tables),
\* with the keyhandler's get_generation dispatching as documented
CallSelect(c, T, q) ==
    CanCall(c) /\ get_single_generation(c, [Frame("select", T) EXCEPT !.query = q])

\* _monkey_select, lines 108-110: val = get(key); if val != None: return val
sel_get(c) ==
    /\ pc[c] = "sel_get"
    /\ LET val == Get(store, fr[c].key)
       IN  IF val # None
           THEN Return(c, Called([fr[c] EXCEPT !.val = val], "get", fr[c].key), val, TRUE)
           ELSE Go(c, "sel_orig", Called([fr[c] EXCEPT !.val = val], "get", fr[c].key))
    /\ UNCHANGED <<store, uuids, db>>

\* _monkey_select, lines 112-118: val = original(cls, ...), made a list
sel_orig(c) ==
    /\ pc[c] = "sel_orig"
    /\ Go(c, "sel_set", [fr[c] EXCEPT !.val = Rows(fr[c].tables, fr[c].query)])
    /\ UNCHANGED <<store, uuids, db>>

\* _monkey_select, lines 119-120: set(key, val); return val
sel_set(c) ==
    /\ pc[c] = "sel_set"
    /\ store' = Set(store, fr[c].key, fr[c].val)
    /\ Return(c, Called(fr[c], "set", fr[c].key), fr[c].val, FALSE)
    /\ UNCHANGED <<uuids, db>>

\* _monkey_write, lines 126-128: the first table of the loop
CallWrite(c, T) == CanCall(c) /\ invalidate_table(c, Frame("write", T))

\* _monkey_write, lines 127-128: the next table of the loop
wr_inv(c) ==
    /\ pc[c] = "inv"
    /\ invalidate_table(c, fr[c])

\* _monkey_write, line 129: return original(cls, ...)
wr_orig(c) ==
    /\ pc[c] = "wr_orig"
    /\ db' = Written(fr[c].tables)
    /\ Return(c, fr[c], << <<"rows", Written(fr[c].tables)>> >>, FALSE)
    /\ UNCHANGED <<store, uuids>>

PathStep(c) == sel_get(c) \/ sel_orig(c) \/ sel_set(c) \/ wr_inv(c) \/ wr_orig(c)

\* a caller calls a KeyGen function, which touches nothing and returns
CallGenTableKey(c, t) ==
    /\ CanCall(c)
    /\ Return(c, Frame("gen_table_key", <<t>>), gen_table_key(t), FALSE)
    /\ UNCHANGED <<store, uuids, db>>

CallGenMultiKey(c, values) ==
    /\ CanCall(c)
    /\ Return(c, [Frame("gen_multi_key", <<>>) EXCEPT !.gens = values], gen_multi_key(values), FALSE)
    /\ UNCHANGED <<store, uuids, db>>

\* a caller calls a KeyHandler method
CallSingle(c, t) == CanCall(c) /\ get_single_generation(c, Frame("get_single_generation", <<t>>))

CallMulti(c, T) == CanCall(c) /\ get_single_generation(c, Frame("get_multi_generation", T))

CallInvalidate(c, t) == CanCall(c) /\ invalidate_table(c, Frame("invalidate_table", <<t>>))

CallGetGeneration(c, T) == CanCall(c) /\ get_generation(c, Frame("get_generation", T))

\* a caller calls a KeyHandler method, whose first call of the cache backend raises e
CallSingleFails(c, t, e) ==
    CanCall(c) /\ get_single_generation_fails(c, Frame("get_single_generation", <<t>>), e)

CallMultiFails(c, T, e) ==
    CanCall(c) /\ get_single_generation_fails(c, Frame("get_multi_generation", T), e)

CallInvalidateFails(c, t, e) ==
    CanCall(c) /\ invalidate_table_fails(c, Frame("invalidate_table", <<t>>), e)

KhCallFails(c, tables, lists, e) ==
    \/ \E t \in tables : CallSingleFails(c, t, e)
    \/ \E T \in Multi(lists) : CallMultiFails(c, T, e)
    \/ \E t \in tables : CallInvalidateFails(c, t, e)

KhCall(c, tables, lists) ==
    \/ \E t \in tables : CallSingle(c, t)
    \/ \E T \in Multi(lists) : CallMulti(c, T)
    \/ \E t \in tables : CallInvalidate(c, t)

\* ----------------------------------------------------------- specifications

Init ==
    /\ store = [k \in {} |-> None]
    /\ uuids = 0
    /\ db = [t \in PathTables |-> 0]
    /\ pc = [c \in Callers |-> "idle"]
    /\ fr = [c \in Callers |-> IdleFrame]
    /\ log = <<>>

\* callers use one KeyHandler concurrently
Next == \E c \in Callers : KhCall(c, SharedTables, SharedLists) \/ KhStep(c)

Spec == Init /\ [][Next]_vars

\* a sequential run: one caller, one call at a time
SeqNext ==
    \/ KhCall(1, Tables, TableLists)
    \/ \E T \in TableLists : CallGetGeneration(1, T)
    \/ KhStep(1)

SeqSpec == Init /\ [][SeqNext]_vars

\* the compilers' execute_sql, patched: callers read and write concurrently
PathNext ==
    \E c \in Callers :
        \/ \E T \in PathLists : \E q \in Queries : CallSelect(c, T, q)
        \/ \E T \in PathLists : CallWrite(c, T)
        \/ KhStep(c)
        \/ PathStep(c)

PathSpec == Init /\ [][PathNext]_vars

\* KeyGen alone: its functions applied to their arguments
KeyNext ==
    \/ \E t \in KeyTables : CallGenTableKey(1, t)
    \/ \E values \in ValueLists : CallGenMultiKey(1, values)

KeySpec == Init /\ [][KeyNext]_vars

\* a sequential run over a cache backend whose calls may fail
FailNext ==
    \/ KhCall(1, PathTables, PathLists)
    \/ KhStep(1)
    \/ \E e \in StoreErrors : KhCallFails(1, PathTables, PathLists, e) \/ KhStepFails(1, e)

FailSpec == Init /\ [][FailNext]_vars

\* ------------------------------------------------------------------ history

IsSingle(e, s) == e.op = "get_single_generation" /\ e.tables = <<s>>
IsInvalidate(e, s) == e.op = "invalidate_table" /\ e.tables = <<s>>
IsMulti(e, T) == e.op = "get_multi_generation" /\ e.tables = T

\* the call names table s
Names(e, s) == s \in Range(e.tables)

\* call k began after call j had ended
After(k, j) == log[k].start >= j

\* Every value of random_generator is stored by the step that draws it, so the
\* number of its uuid4 is its place in the order in which values were stored.
TokNum(val) == val[1][2][1][2]

\* ------------------------------------------------------------------- claims

C2_Original ==
    \A j, k \in DOMAIN log : \A s \in Tables :
        (IsInvalidate(log[j], s) /\ IsSingle(log[k], s) /\ After(k, j))
        => \/ log[k].ret = log[j].ret
           \/ \E m \in (j + 1)..(k - 1) : IsInvalidate(log[m], s) /\ log[m].ret = log[k].ret

\* C2, amended: once invalidate_table(s) has returned v, a get_single_generation(s)
\* that begins later returns v or a value stored under the key of s after v was
\* stored, never a value stored before v.
C2_NeverOlder ==
    \A j, k \in DOMAIN log : \A s \in Tables :
        (IsInvalidate(log[j], s) /\ IsSingle(log[k], s) /\ After(k, j))
        => TokNum(log[k].ret) >= TokNum(log[j].ret)

\* an invalidation returned, and a later get_single_generation returned a value that
\* a racing get_single_generation had created
C2_Witness ==
    \E j, k, m \in DOMAIN log : \E s \in Tables :
        /\ IsInvalidate(log[j], s) /\ IsSingle(log[k], s) /\ After(k, j)
        /\ IsSingle(log[m], s) /\ m # k /\ log[k].ret \in log[m].drawn

\* C3: in a sequential run, v1 = get_single_generation(s), v2 = invalidate_table(s),
\* v3 = get_single_generation(s), with no other call on s in between, give
\* v1 # v2 and v2 = v3.
C3_InvalidationChangesValue ==
    \A i, j, k \in DOMAIN log : \A s \in Tables :
        (/\ i < j /\ j < k
         /\ IsSingle(log[i], s) /\ IsInvalidate(log[j], s) /\ IsSingle(log[k], s)
         /\ \A m \in (i + 1)..(k - 1) : m # j => ~Names(log[m], s))
        => log[i].ret # log[j].ret /\ log[j].ret = log[k].ret

C3_Witness ==
    \E i, j, k \in DOMAIN log : \E s \in Tables :
        /\ i < j /\ j < k
        /\ IsSingle(log[i], s) /\ IsInvalidate(log[j], s) /\ IsSingle(log[k], s)
        /\ \A m \in (i + 1)..(k - 1) : m # j => ~Names(log[m], s)

\* the caller's call k is its next call after its call j
NextCallOf(j, k) ==
    /\ j < k
    /\ log[j].caller = log[k].caller
    /\ \A m \in (j + 1)..(k - 1) : log[m].caller # log[j].caller

\* no call of another caller that names s ran between the end of j and the end of k
Undisturbed(j, k, s) ==
    /\ \A m \in DOMAIN log :
           (m # j /\ m # k /\ Names(log[m], s)) => (m < j \/ After(m, k))
    /\ \A c \in Callers : (pc[c] # "idle" /\ Names(fr[c], s)) => fr[c].start >= k

\* C4, as claimed: a caller's get_single_generation(s) right after its own
\* invalidate_table(s) returns the value that invalidate_table returned, whatever
\* the other callers do.
C4_Original ==
    \A j, k \in DOMAIN log : \A s \in Tables :
        (NextCallOf(j, k) /\ IsInvalidate(log[j], s) /\ IsSingle(log[k], s))
        => log[k].ret = log[j].ret

\* C4, amended: that get returns the caller's own value v when no other caller's
\* call on s ran in between, and otherwise v or a value stored under the key of s
\* after v; never a value stored before v.
C4_ReadYourWrite ==
    \A j, k \in DOMAIN log : \A s \in Tables :
        (NextCallOf(j, k) /\ IsInvalidate(log[j], s) /\ IsSingle(log[k], s))
        => /\ TokNum(log[k].ret) >= TokNum(log[j].ret)
           /\ Undisturbed(j, k, s) => log[k].ret = log[j].ret

\* a caller invalidated and then read, and read the value of another caller
C4_Witness ==
    \E j, k \in DOMAIN log : \E s \in Tables :
        /\ NextCallOf(j, k) /\ IsInvalidate(log[j], s) /\ IsSingle(log[k], s)
        /\ log[k].ret # log[j].ret

\* C5: for a list T of more than one table and s in T, get_multi_generation(T),
\* then invalidate_table(s), then get_multi_generation(T) give different values,
\* computed under different combined keys.
C5_MultiSensitivity ==
    \A i, j, k \in DOMAIN log : \A s \in Tables :
        (/\ log[i].op = "get_multi_generation" /\ IsMulti(log[k], log[i].tables)
         /\ Names(log[i], s) /\ IsInvalidate(log[j], s)
         /\ i < j /\ After(j, i) /\ After(k, j))
        => log[i].ret # log[k].ret /\ log[i].key # log[k].key

\* the table invalidated between the two calls is the second of the list
C5_Witness ==
    \E i, j, k \in DOMAIN log : \E s \in Tables :
        /\ log[i].op = "get_multi_generation" /\ IsMulti(log[k], log[i].tables)
        /\ log[i].tables[2] = s /\ IsInvalidate(log[j], s)
        /\ i < j /\ After(j, i) /\ After(k, j)

\* call i is the first call that names s: the store has no slot for s when it begins
FirstOn(i, s) == \A m \in 1..(i - 1) : ~Names(log[m], s)

\* C6: from a store with no slot for s, the first get_single_generation(s) returns
\* v1, and every further get_single_generation(s) with no invalidate_table(s) in
\* between returns v1.
C6_LazyCreationIdempotent ==
    \A i, k \in DOMAIN log : \A s \in Tables :
        (/\ i < k /\ IsSingle(log[i], s) /\ IsSingle(log[k], s) /\ FirstOn(i, s)
         /\ \A m \in (i + 1)..(k - 1) : ~IsInvalidate(log[m], s))
        => log[k].ret = log[i].ret

C6_Witness ==
    \E i, k \in DOMAIN log : \E s \in Tables :
        /\ i < k /\ IsSingle(log[i], s) /\ IsSingle(log[k], s) /\ FirstOn(i, s)
        /\ \A m \in (i + 1)..(k - 1) : ~IsInvalidate(log[m], s)
        /\ log[i].drawn = {log[i].ret}

\* C7: two calls of get_multi_generation on the same list, with no invalidate_table
\* of any of its tables between them, return equal values.
C7_MultiStability ==
    \A i, k \in DOMAIN log :
        (/\ i < k /\ log[i].op = "get_multi_generation" /\ IsMulti(log[k], log[i].tables)
         /\ \A m \in (i + 1)..(k - 1) : \A s \in Range(log[i].tables) : ~IsInvalidate(log[m], s))
        => log[k].ret = log[i].ret

C7_Witness ==
    \E i, k \in DOMAIN log :
        /\ i < k /\ log[i].op = "get_multi_generation" /\ IsMulti(log[k], log[i].tables)
        /\ \A m \in (i + 1)..(k - 1) : \A s \in Range(log[i].tables) : ~IsInvalidate(log[m], s)

\* this step ends a call
Ends == Len(log') = Len(log) + 1

\* the call that this step ends
Ended == log'[Len(log')]

\* this step is invalidate_table(t) running and returning
InvalidateStep(t) ==
    /\ Len(log') = Len(log) + 1
    /\ IsInvalidate(log'[Len(log')], t)

\* C8: for distinct tables s and t, invalidate_table(t) leaves the entry under
\* gen_table_key(s) as it was, so get_single_generation(s) returns the same value
\* before and after it.
C8_SingleSourceIsolation ==
    /\ [][\A t \in Tables : InvalidateStep(t) =>
              \A s \in Tables \ {t} :
                  Get(store', gen_table_key(s)) = Get(store, gen_table_key(s))]_vars
    /\ [](\A i, j, k \in DOMAIN log : \A s, t \in Tables :
              (/\ s # t /\ i < j /\ j < k
               /\ IsSingle(log[i], s) /\ IsInvalidate(log[j], t) /\ IsSingle(log[k], s)
               /\ \A m \in (i + 1)..(k - 1) : ~IsInvalidate(log[m], s))
              => log[k].ret = log[i].ret)

\* the two tables are the long ones, whose keys differ in the digest only
C8_Witness ==
    \E i, j, k \in DOMAIN log :
        /\ i < j /\ j < k
        /\ IsSingle(log[i], LongX) /\ IsInvalidate(log[j], LongY) /\ IsSingle(log[k], LongX)

\* calls i and k are the lazy-creation race on s: both found the slot absent and
\* both stored a value of their own, k after i
LazyRace(i, k, s) ==
    /\ IsSingle(log[i], s) /\ IsSingle(log[k], s)
    /\ log[i].drawn # {} /\ log[k].drawn # {}
    /\ TokNum(log[i].ret) < TokNum(log[k].ret)

\* C9, as claimed: the value the last writer of the race overwrites was returned to
\* no caller (here: to none but the call that created it).
C9_Original ==
    \A i, k, m \in DOMAIN log : \A s \in Tables :
        (LazyRace(i, k, s) /\ m # i) => log[m].ret # log[i].ret

\* C9, amended: the overwritten value is returned to the call that created it and
\* to calls that read the slot before the overwrite, and to no
\* get_single_generation(s) that begins after the overwrite.
C9_DiscardedNotReturnedLater ==
    \A s \in Tables : \A i \in DOMAIN log :
        IsSingle(log[i], s) =>
            \A k \in DOMAIN log :
                LazyRace(i, k, s) =>
                    \A m \in DOMAIN log :
                        (IsSingle(log[m], s) /\ After(m, k)) => log[m].ret # log[i].ret

C9_Witness ==
    \E i, k, m \in DOMAIN log : \E s \in Tables :
        LazyRace(i, k, s) /\ IsSingle(log[m], s) /\ After(m, k)

\* C10: get_generation with one table s returns what get_single_generation(s)
\* returns, and with more than one table what get_multi_generation returns, with
\* the same effect on the store.
C10_Dispatch ==
    \A i \in DOMAIN log :
        log[i].op = "get_generation" =>
            /\ log[i].ret # TypeError
            /\ (i = Len(log) /\ Len(log[i].tables) = 1)
                   => Get(store, gen_table_key(log[i].tables[1])) = log[i].ret
            /\ (i < Len(log) /\ Len(log[i].tables) = 1 /\ IsSingle(log[i + 1], log[i].tables[1]))
                   => log[i + 1].ret = log[i].ret
            /\ (i < Len(log) /\ Len(log[i].tables) > 1 /\ IsMulti(log[i + 1], log[i].tables))
                   => log[i + 1].ret = log[i].ret

\* C11: two calls of get_multi_generation that name the same set of tables, with
\* no invalidate_table of any of them in between, return equal values in whatever
\* order each call's list has the tables.
C11_OrderIndependence ==
    \A i, k \in DOMAIN log :
        (/\ i < k
         /\ log[i].op = "get_multi_generation" /\ log[k].op = "get_multi_generation"
         /\ Range(log[i].tables) = Range(log[k].tables)
         /\ \A m \in (i + 1)..(k - 1) : \A s \in Range(log[i].tables) : ~IsInvalidate(log[m], s))
        => log[k].ret = log[i].ret

\* C12: when a call of the cache backend fails during get_single_generation,
\* get_multi_generation or invalidate_table, the method ends with the error the
\* backend raised, in the step of the failing call (it calls the backend no more,
\* neither to try again nor to set after a failed get), and the store is as it
\* was before the failing call.
C12_StoreErrorPropagates ==
    /\ [](\A c \in Callers : fr[c].error = None)
    /\ [](\A i \in DOMAIN log : log[i].error # None => log[i].ret = log[i].error)
    /\ [][(Ends /\ Ended.error # None) => store' = store]_vars

\* get_multi_generation created a slot and then failed at a later call of the backend
C12_Witness ==
    \E i \in DOMAIN log :
        /\ log[i].op = "get_multi_generation" /\ log[i].error # None
        /\ \E n \in 1..(Len(log[i].calls) - 1) : log[i].calls[n] = "set"

\* 'jc_table_' and 200 characters and the 32 of a digest make 241; the docstring
\* of gen_table_key says "Total length up to 242"
KeyLenMax == 242

\* C13: for every table name s, and so for every s of more than 200 characters,
\* gen_table_key(s) has at most 242 characters.
C13_KeyLengthBound ==
    \A i \in DOMAIN log :
        log[i].op = "gen_table_key" => len(log[i].ret) <= KeyLenMax

\* gen_table_key was given a name of 250 characters
C13_Witness ==
    \E i \in DOMAIN log :
        /\ log[i].op = "gen_table_key" /\ len(log[i].tables[1]) > TableNameMax + 1
        /\ len(log[i].ret) = len(jc_table) + TableNameMax + 32

\* C14: for every table name s and every list of generations v, gen_table_key(s)
\* differs from gen_multi_key(v).
C14_NamespaceSeparation ==
    \A i, k \in DOMAIN log :
        (log[i].op = "gen_table_key" /\ log[k].op = "gen_multi_key") => log[i].ret # log[k].ret

\* the table is named like the digest of the list of generations
C14_Witness ==
    \E i, k \in DOMAIN log :
        /\ log[i].op = "gen_table_key" /\ log[k].op = "gen_multi_key"
        /\ log[i].tables[1] = hexdigest(update_all(md5_new, log[k].gens))

\* val was not there before this step: not in the store, returned by no call
Fresh(val) ==
    /\ \A k \in DOMAIN store : store[k] # val
    /\ \A i \in DOMAIN log : log[i].ret # val /\ val \notin log[i].drawn
    /\ \A c \in Callers : val \notin fr[c].drawn

\* C15: invalidate_table(s), whether the slot of s is absent or present, calls the
\* cache backend once, a set of gen_table_key(s) to a token that random_generator
\* made for it, never a get; it returns that token and leaves every other key of
\* the store as it was.
C15_InvalidateUnconditional ==
    [][\A t \in Tables : InvalidateStep(t) =>
           /\ Ended.calls = <<"set">> /\ Ended.key = gen_table_key(t)
           /\ Ended.drawn = {Ended.ret} /\ Fresh(Ended.ret)
           /\ store' = Set(store, gen_table_key(t), Ended.ret)
           /\ \A k \in DOMAIN store \ {gen_table_key(t)} : store'[k] = store[k]]_vars

\* invalidate_table(s) ran on the absent slot of s, and again on the present one,
\* other slots being there
C15_Witness ==
    \E i, k \in DOMAIN log : \E s \in Tables :
        /\ i < k /\ IsInvalidate(log[i], s) /\ IsInvalidate(log[k], s) /\ FirstOn(i, s)
        /\ DOMAIN store # {gen_table_key(s)}

\* C16: a slot that is present is never absent again: no step of a KeyHandler
\* method takes a key out of the store or stores None under it; a slot goes from
\* absent to a value and from a value to a value.
C16_SlotLifecycle ==
    /\ [](\A k \in DOMAIN store : Get(store, k) # None)
    /\ [][\A k \in DOMAIN store : Get(store', k) # None]_vars

\* the slot of s was created by a first lookup and has been replaced by an invalidation
C16_Witness ==
    \E i, k \in DOMAIN log : \E s \in Tables :
        /\ i < k /\ IsSingle(log[i], s) /\ log[i].drawn # {} /\ IsInvalidate(log[k], s)
        /\ Get(store, gen_table_key(s)) = log[k].ret

\* this step is a step of a get_multi_generation call of caller c
MultiStep(c) ==
    \/ pc[c] # "idle" /\ fr[c].op = "get_multi_generation" /\ fr'[c] # fr[c]
    \/ pc[c] = "idle" /\ pc'[c] # "idle" /\ fr'[c].op = "get_multi_generation"

\* the tables of the call that caller c is in during this step
StepTables(c) == IF pc[c] # "idle" THEN fr[c].tables ELSE fr'[c].tables

\* the keys that this step of caller c's get_multi_generation may create
MultiKeys(c) ==
    {gen_table_key(s) : s \in Range(StepTables(c))}
        \cup (IF pc[c] = "gmg_set" THEN {gen_multi_key(fr[c].gens)} ELSE {})

\* when this step ends caller c's get_multi_generation, the slots of its tables and
\* of the combined key are present, the latter holding what the call returns
MultiEnds(c) ==
    (Ends /\ Ended.caller = c) =>
        /\ \A s \in Range(Ended.tables) : Get(store', gen_table_key(s)) # None
        /\ Ended.key = gen_multi_key(Ended.gens)
        /\ Get(store', Ended.key) = Ended.ret /\ Ended.ret # None

\* C17, as claimed: get_multi_generation(T) changes the value of no slot that is
\* present and creates no key but those of the tables of T and the combined key it
\* computed; when it returns, the slot of every table of T and the slot of that
\* combined key are present.
C17_Original ==
    [][\A c \in Callers : MultiStep(c) =>
           /\ \A k \in DOMAIN store : Get(store', k) = store[k]
           /\ \A k \in DOMAIN store' \ DOMAIN store : k \in MultiKeys(c)
           /\ MultiEnds(c)]_vars

\* C17, amended: get_multi_generation(T) sets a key only after its own get found
\* that key absent, and sets it even when another caller has stored a value under
\* it since; it sets no key but those of the tables of T and the combined key it
\* computed, and when it returns, those slots are present.
C17_MultiFrame ==
    [][\A c \in Callers : MultiStep(c) =>
           /\ \A k \in DOMAIN store' :
                  Get(store', k) # Get(store, k) =>
                      /\ k \in MultiKeys(c) /\ k = fr[c].key
                      /\ fr[c].val = None /\ fr[c].calls[Len(fr[c].calls)] = "get"
           /\ \A k \in DOMAIN store : k \in DOMAIN store'
           /\ MultiEnds(c)]_vars

\* get_multi_generation found the slot of its first table absent and set it after
\* an invalidate_table of another caller had set it, and returned
C17_Witness ==
    \E j, k \in DOMAIN log :
        /\ log[k].op = "get_multi_generation" /\ IsInvalidate(log[j], log[k].tables[1])
        /\ <<log[k].gens[1]>> \in log[k].drawn
        /\ TokNum(<<log[k].gens[1]>>) > TokNum(log[j].ret)

BeginsSingle(c, s) ==
    /\ pc[c] = "idle"
    /\ \/ pc'[c] # "idle" /\ fr'[c].op = "get_single_generation" /\ fr'[c].tables = <<s>>
       \/ Ends /\ Ended.caller = c /\ IsSingle(Ended, s)

\* in this step get_multi_generation of caller c calls get_single_generation(s)
\* and it does its get; gens is the generations list before the call
LoopSingle(c, s, gens) ==
    \/ /\ pc[c] = "idle" /\ pc'[c] # "idle" /\ gens = <<>>
       /\ fr'[c].op = "get_multi_generation" /\ fr'[c].tables[1] = s
    \/ /\ pc[c] = "gsg_get" /\ fr'[c] # fr[c] /\ gens = fr[c].gens
       /\ fr[c].op = "get_multi_generation" /\ fr[c].tables[fr[c].i] = s

\* C19: get_single_generation(s), when the slot of s is present, returns the value
\* stored there, calls no set, and leaves the store as it is, also when
\* get_multi_generation calls it.
C19_SingleReadOnly ==
    [][\A c \in Callers : pc[c] \in {"idle", "gsg_get"} => \A s \in Tables :
           LET key == gen_table_key(s)
           IN  /\ (BeginsSingle(c, s) /\ Get(store, key) # None) =>
                      /\ Ends /\ Ended.caller = c /\ Ended.ret = store[key]
                      /\ Ended.calls = <<"get">> /\ Ended.key = key /\ Ended.drawn = {}
                      /\ store' = store /\ uuids' = uuids
               /\ \A gens \in {<<>>, fr[c].gens} :
                      (LoopSingle(c, s, gens) /\ Get(store, key) # None) =>
                          /\ pc'[c] # "gsg_set" /\ fr'[c].gens = gens \o store[key]
                          /\ fr'[c].drawn = fr[c].drawn
                          /\ store' = store /\ uuids' = uuids]_vars

\* get_single_generation(s) ran on the slot an invalidate_table(s) had filled
C19_Witness ==
    \E j, k \in DOMAIN log : \E s \in Tables :
        /\ j < k /\ IsInvalidate(log[j], s) /\ IsSingle(log[k], s) /\ After(k, j)
        /\ log[k].drawn = {}

\* C20: random_generator never repeating a value, every value it makes is stored
\* at most once and under one key: no two keys of the store hold the same value,
\* each step stores under at most one key, and what it stores is the value just
\* made, newer than every value stored before; so a slot that has changed away
\* from a value holds that value never again.
C20_NoTokenReuse ==
    /\ [](\A k1, k2 \in DOMAIN store : k1 # k2 => store[k1] # store[k2])
    /\ [](\A k \in DOMAIN store : TokNum(store[k]) \in 1..uuids)
    /\ [][store' # store =>
              LET changed == {k \in DOMAIN store' : Get(store', k) # Get(store, k)}
              IN  /\ Cardinality(changed) <= 1
                  /\ \A k \in changed :
                         /\ store'[k] = random_generator(uuids') /\ uuids' = uuids + 1
                         /\ k \in DOMAIN store => TokNum(store'[k]) > TokNum(store[k])]_vars

\* the slot of s has changed from a value to a value, and a combined key holds a
\* third value
C20_Witness ==
    \E i, k \in DOMAIN log : \E s \in Tables :
        /\ i < k /\ Names(log[i], s) /\ IsInvalidate(log[k], s)
        /\ log[i].op = "get_multi_generation"
        /\ Get(store, gen_table_key(s)) = log[k].ret
        /\ Get(store, log[i].key) = log[i].ret
        /\ Cardinality(DOMAIN store) >= 3

====
